---- MODULE Spec2Model ----
(***************************************************************************)
(* Model of package viamupnp (erh/viamupnp): discovery of UPnP devices and *)
(* matching of the discovered devices against a batch of DeviceQuery.      *)
(*                                                                         *)
(* Two variants of the package are modelled side by side:                  *)
(*   "mapping"  : src/find.go            FindHost returns                  *)
(*                ([]string, map[string]DeviceQuery, error)                *)
(*   "endpoint" : src/unnamed/part_000   FindHost returns                  *)
(*                ([]string, error), DeviceQuery carries Endpoints         *)
(*                                                                         *)
(* A Go string is a sequence of one-character strings, so that HasSuffix,  *)
(* HasPrefix, slicing and Sprintf are computed and not assumed.            *)
(***************************************************************************)
EXTENDS Naturals, Sequences, FiniteSets, TLC

(***************************************************************************)
(* Bounds of the model.                                                    *)
(***************************************************************************)
MaxQueries == 2
MaxAds == 2
MaxPat == 3
MaxField == 2

(***************************************************************************)
(* Strings.                                                                *)
(***************************************************************************)
Empty == <<>>
DotStar == <<".", "*">>
eth0 == <<"e", "t", "h", "0">>
Digits == {"0", "1", "2", "3", "4", "5", "6", "7", "8", "9"}

\* strings.HasSuffix(s, suffix)
HasSuffix(s, suffix) ==
    /\ Len(s) >= Len(suffix)
    /\ SubSeq(s, Len(s) - Len(suffix) + 1, Len(s)) = suffix

\* strings.HasPrefix(s, prefix)
HasPrefix(s, prefix) ==
    /\ Len(s) >= Len(prefix)
    /\ SubSeq(s, 1, Len(prefix)) = prefix

\* slices.Contains(list, x)
Contains(list, x) == \E i \in 1..Len(list) : list[i] = x

\* All sequences over S of length at most n.
SeqsUpTo(S, n) == UNION {[1..k -> S] : k \in 0..n}

(***************************************************************************)
(* net/url: url.Parse(location) and URL.Hostname(), for locations of the   *)
(* shape scheme "://" host [":" port] path.  Parse fails on a port         *)
(* that is not a number; Hostname drops the scheme, the port and the path. *)
(***************************************************************************)
FirstIndex(s, c, from) ==
    LET hits == {i \in from..Len(s) : s[i] = c}
    IN  IF hits = {} THEN 0 ELSE CHOOSE i \in hits : \A j \in hits : i <= j

LastIndex(s, c) ==
    LET hits == {i \in 1..Len(s) : s[i] = c}
    IN  IF hits = {} THEN 0 ELSE CHOOSE i \in hits : \A j \in hits : i >= j

Authority(loc) ==
    LET colon == FirstIndex(loc, ":", 1)
        start == colon + 3
        slash == FirstIndex(loc, "/", start)
        stop  == IF slash = 0 THEN Len(loc) ELSE slash - 1
    IN  IF colon = 0 \/ ~HasPrefix(SubSeq(loc, colon, Len(loc)), <<":", "/", "/">>)
        THEN Empty
        ELSE SubSeq(loc, start, stop)

urlParse(loc) ==
    LET auth == Authority(loc)
        c    == LastIndex(auth, ":")
        port == IF c = 0 THEN Empty ELSE SubSeq(auth, c + 1, Len(auth))
        host == IF c = 0 THEN auth ELSE SubSeq(auth, 1, c - 1)
    IN  IF \E i \in 1..Len(port) : port[i] \notin Digits
        THEN [err |-> TRUE, Hostname |-> Empty]
        ELSE [err |-> FALSE, Hostname |-> host]

(***************************************************************************)
(* Query Matcher.                                                          *)
(***************************************************************************)
\* Mutant of matches: the ".*" suffix is not cut off before the prefix test.
matches_noStrip(query, s) ==
    IF query = s THEN TRUE
    ELSE IF HasSuffix(query, DotStar)
         THEN HasPrefix(s, query)
         ELSE FALSE

\* func matches(query string, s string) bool
matches(query, s) ==
    IF query = s THEN TRUE
    ELSE IF HasSuffix(query, DotStar)
         THEN HasPrefix(s, SubSeq(query, 1, Len(query) - 2))
         ELSE FALSE

\* UPNPDevice.Matches(query DeviceQuery) bool
Matches(dev, query) ==
    IF query.ModelName # Empty /\ ~matches(query.ModelName, dev.Desc.ModelName)
    THEN FALSE
    ELSE IF query.Manufacturer # Empty
            /\ ~matches(query.Manufacturer, dev.Desc.Manufacturer)
    THEN FALSE
    ELSE IF query.SerialNumber # Empty
            /\ ~matches(query.SerialNumber, dev.Desc.SerialNumber)
    THEN FALSE
    ELSE TRUE

(***************************************************************************)
(* parseNetworks, one definition per variant.                              *)
(***************************************************************************)
RECURSIVE M_parseNetworksFrom(_, _, _)
M_parseNetworksFrom(queries, i, networks) ==
    IF i > Len(queries) THEN networks
    ELSE M_parseNetworksFrom(queries, i + 1,
            IF ~Contains(networks, queries[i].Network)
            THEN Append(networks, queries[i].Network)
            ELSE networks)

RECURSIVE E_parseNetworksFrom(_, _, _)
E_parseNetworksFrom(queries, i, networks) ==
    IF i > Len(queries) THEN networks
    ELSE E_parseNetworksFrom(queries, i + 1,
            IF queries[i].Network # Empty /\ Contains(networks, queries[i].Network)
            THEN Append(networks, queries[i].Network)
            ELSE networks)

M_parseNetworks(queries) == M_parseNetworksFrom(queries, 1, <<>>)

E_parseNetworks(queries) == E_parseNetworksFrom(queries, 1, <<>>)

(***************************************************************************)
(* Host Resolution: the matching loops of FindHost.                        *)
(***************************************************************************)
\* fmt.Sprintf("%s/%s", hostname, endpoint)
Sprintf(hostname, endpoint) == hostname \o <<"/">> \o endpoint

\* Mutant of M_OnMatch: the "don't repeat hostnames" test is left out.
M_OnMatch_noDedup(acc, a, query) ==
    LET u == urlParse(a.Service.Location)
    IN  IF u.err THEN acc
        ELSE [hostnames    |-> Append(acc.hostnames, u.Hostname),
              foundQueries |-> (u.Hostname :> query) @@ acc.foundQueries]

\* Mutant of M_OnMatch: the map entry is written on every match.
M_OnMatch_overwrite(acc, a, query) ==
    LET u == urlParse(a.Service.Location)
    IN  IF u.err THEN acc
        ELSE [hostnames    |-> IF ~Contains(acc.hostnames, u.Hostname)
                               THEN Append(acc.hostnames, u.Hostname)
                               ELSE acc.hostnames,
              foundQueries |-> (u.Hostname :> query) @@ acc.foundQueries]

\* Body of the mapping variant's "if a.Matches(query)" for one device and query.
M_OnMatch(acc, a, query) ==
    LET u == urlParse(a.Service.Location)
    IN  IF u.err THEN acc
        ELSE IF ~Contains(acc.hostnames, u.Hostname)
             THEN [hostnames    |-> Append(acc.hostnames, u.Hostname),
                   foundQueries |-> (u.Hostname :> query) @@ acc.foundQueries]
             ELSE acc

RECURSIVE M_MatchFrom(_, _, _, _, _)
M_MatchFrom(devs, queries, ai, qi, acc) ==
    IF ai > Len(devs) THEN acc
    ELSE IF qi > Len(queries) THEN M_MatchFrom(devs, queries, ai + 1, 1, acc)
    ELSE M_MatchFrom(devs, queries, ai, qi + 1,
            IF Matches(devs[ai], queries[qi])
            THEN M_OnMatch(acc, devs[ai], queries[qi])
            ELSE acc)

\* The loop "for _, a := range all" of the mapping variant.
M_MatchAll(devs, queries, acc) == M_MatchFrom(devs, queries, 1, 1, acc)

\* The loop "for _, endpoint := range query.Endpoints" of the endpoint variant.
RECURSIVE E_AppendEndpoints(_, _, _, _)
E_AppendEndpoints(hostnames, hostname, endpoints, i) ==
    IF i > Len(endpoints) THEN hostnames
    ELSE E_AppendEndpoints(Append(hostnames, Sprintf(hostname, endpoints[i])),
                           hostname, endpoints, i + 1)

\* Mutant of E_OnMatch: the "continue" after the endpoints is left out.
E_OnMatch_fallthrough(hostnames, a, query) ==
    LET u == urlParse(a.Service.Location)
    IN  IF u.err THEN hostnames
        ELSE Append(E_AppendEndpoints(hostnames, u.Hostname, query.Endpoints, 1),
                    u.Hostname)

\* Body of the endpoint variant's "if a.Matches(query)" for one device and query.
E_OnMatch(hostnames, a, query) ==
    LET u == urlParse(a.Service.Location)
    IN  IF u.err THEN hostnames
        ELSE IF Len(query.Endpoints) > 0
             THEN E_AppendEndpoints(hostnames, u.Hostname, query.Endpoints, 1)
             ELSE Append(hostnames, u.Hostname)

RECURSIVE E_MatchFrom(_, _, _, _, _)
E_MatchFrom(devs, queries, ai, qi, hostnames) ==
    IF ai > Len(devs) THEN hostnames
    ELSE IF qi > Len(queries) THEN E_MatchFrom(devs, queries, ai + 1, 1, hostnames)
    ELSE E_MatchFrom(devs, queries, ai, qi + 1,
            IF Matches(devs[ai], queries[qi])
            THEN E_OnMatch(hostnames, devs[ai], queries[qi])
            ELSE hostnames)

\* The loop "for _, a := range all" of the endpoint variant.
E_MatchAll(devs, queries) == E_MatchFrom(devs, queries, 1, 1, <<>>)

(***************************************************************************)
(* Return values.  A nil error is [kind |-> "nil"]; the error of a failed  *)
(* ssdp.Search names the network; the no-match error carries the batch it  *)
(* prints with %v.                                                         *)
(***************************************************************************)
NilErr == [kind |-> "nil"]
SearchErr(network) == [kind |-> "search", network |-> network]
NoMatchErr(queries) == [kind |-> "nomatch", queries |-> queries]
EmptyMap == [h \in {} |-> Empty]

\* Mutant of M_Result: the test of len(hostnames) is left out.
M_Result_noCheck(hs, fq, queries) ==
    [hostnames |-> hs, foundQueries |-> fq, mapNil |-> FALSE, err |-> NilErr]

\* "if len(hostnames) > 0 { return hostnames, foundQueries, nil }" and the
\* final return of the mapping variant.
M_Result(hs, fq, queries) ==
    IF Len(hs) > 0
    THEN [hostnames |-> hs, foundQueries |-> fq, mapNil |-> FALSE, err |-> NilErr]
    ELSE [hostnames |-> <<>>, foundQueries |-> EmptyMap, mapNil |-> TRUE,
          err |-> NoMatchErr(queries)]

\* Mutant of M_SearchFailed: what was found so far is returned with the error.
M_SearchFailed_partial(hs, fq, e) ==
    [hostnames |-> hs, foundQueries |-> fq, mapNil |-> FALSE, err |-> e]

\* "return []string{}, nil, err" of the mapping variant.
M_SearchFailed(hs, fq, e) ==
    [hostnames |-> <<>>, foundQueries |-> EmptyMap, mapNil |-> TRUE, err |-> e]

\* "if len(hostnames) > 0 { return hostnames, nil }" and the final return of
\* the endpoint variant.
E_Result(hs, queries) ==
    IF Len(hs) > 0
    THEN [hostnames |-> hs, err |-> NilErr]
    ELSE [hostnames |-> <<>>, err |-> NoMatchErr(queries)]

\* "if err != nil { return []string{}, err }" of the endpoint variant.
E_SearchFailed(devs, e) == [hostnames |-> <<>>, err |-> e]

\* "return nil, err" of findAll.
FindAllFailed(devs, e) == [all |-> <<>>, isNil |-> TRUE, err |-> e]

\* "return all, nil" of findAll.
FindAllOk(devs) == [all |-> devs, isNil |-> FALSE, err |-> NilErr]

(***************************************************************************)
(* Inputs and the environment.                                             *)
(***************************************************************************)
Nets == {Empty, eth0}
ModelX1 == <<"X", "1">>
ModelY == <<"Y">>
PatX == <<"X", ".", "*">>
MfgM == <<"M">>
SerS == <<"S">>
EpA == <<"a">>
EpB == <<"b">>
LocH1 == <<"h", "t", "t", "p", ":", "/", "/", "h", "1", ":", "8", "0", "/", "d">>
LocH1b == <<"h", "t", "t", "p", ":", "/", "/", "h", "1", "/", "e">>
LocH2 == <<"h", "t", "t", "p", ":", "/", "/", "h", "2", "/", "d">>
LocBad == <<"h", "t", "t", "p", ":", "/", "/", "h", "2", ":", "x", "/", "d">>
Locations == {LocH1, LocH1b, LocH2, LocBad}
HostH1 == <<"h", "1">>

\* The descriptor document the device at a location serves.
DescAt(url) ==
    [ModelName    |-> IF url \in {LocH1, LocH2} THEN ModelX1 ELSE ModelY,
     Manufacturer |-> MfgM,
     SerialNumber |-> SerS]

\* ssdp.Service (the field the package reads)
Services == [Location : Locations]

\* type DeviceQuery, mapping variant
M_Queries == [ModelName : {Empty, PatX}, Manufacturer : {Empty},
              SerialNumber : {Empty}, Network : Nets]

\* type DeviceQuery, endpoint variant
E_Queries == [ModelName : {Empty, PatX}, Manufacturer : {Empty},
              SerialNumber : {Empty}, Network : Nets,
              Endpoints : {<<>>, <<EpA, EpB>>}]

\* type UPNPDevice: a service with the descriptor its location serves
Devices == {[Service |-> srv, Desc |-> DescAt(srv.Location)] : srv \in Services}

\* ctx.Value(FindAllTestKey).([]UPNPDevice): unset, or a device list
Hooks == {[ok |-> FALSE, all |-> <<>>]}
         \cup {[ok |-> TRUE, all |-> l] : l \in SeqsUpTo(Devices, MaxAds)}

\* ssdp.Search(searchType, 1, network): an error, or a list of services.  The
\* search type (ssdp.All, or ssdp.RootDevice under rootOnly) and the network
\* only select what the network answers, which is left open here.
SearchOutcomes == {[err |-> TRUE, list |-> <<>>]}
                  \cup {[err |-> FALSE, list |-> l] : l \in SeqsUpTo(Services, MaxAds)}

\* readDeviceDesc(ctx, url): (nil, err) or (desc, nil).  A request whose
\* context is already cancelled fails in cli.Do.
readDeviceDesc(ctxDone, url) ==
    IF ctxDone
    THEN {[err |-> TRUE, desc |-> <<>>]}
    ELSE {[err |-> TRUE, desc |-> <<>>], [err |-> FALSE, desc |-> DescAt(url)]}

\* The devices of a list added, each once, to the devices seen so far.
RECURSIVE AddDistinct(_, _)
AddDistinct(seen, devs) ==
    IF devs = <<>> THEN seen
    ELSE AddDistinct(IF Contains(seen, Head(devs)) THEN seen
                     ELSE Append(seen, Head(devs)), Tail(devs))

(***************************************************************************)
(* State.                                                                  *)
(***************************************************************************)
VARIABLES
    variant,      \* "mapping" (src/find.go) or "endpoint" (src/unnamed/part_000)
    entry,        \* the function called: "FindHost" or "findAll"
    queries,      \* FindHost's queries argument
    hook,         \* ctx.Value(FindAllTestKey)
    cancelled,    \* ctx.Done() is closed
    pc,           \* position in the call
    networks,     \* FindHost's networks / findAll's networks argument
    ni,           \* index of the network being searched
    list,         \* findAll's list, the services of the current search
    si,           \* index of the service being resolved
    all,          \* findAll's all
    hostnames,    \* FindHost's hostnames (mapping variant, across networks)
    foundQueries, \* FindHost's foundQueries (mapping variant)
    findAllRet,   \* what the last findAll returned
    ret,          \* what the call returned
    searchLog,    \* the calls of ssdp.Search made so far
    fetchLog,     \* the calls of readDeviceDesc made by the current findAll
    discovered,   \* the devices findAll has returned, in order of first discovery
    budget        \* advertisements the network may still answer with (at most
                  \* MaxAds in one call)

vars == <<variant, entry, queries, hook, cancelled, pc, networks, ni, list, si, all,
          hostnames, foundQueries, findAllRet, ret, searchLog, fetchLog, discovered,
          budget>>

NoRet == [pending |-> TRUE]

Init ==
    /\ variant \in {"mapping", "endpoint"}
    /\ entry \in (IF variant = "endpoint" THEN {"FindHost", "findAll"} ELSE {"FindHost"})
    /\ queries \in (IF entry = "findAll" THEN {<<>>}
                    ELSE IF variant = "mapping" THEN SeqsUpTo(M_Queries, MaxQueries)
                    ELSE SeqsUpTo(E_Queries, MaxQueries))
    /\ networks \in (IF entry = "findAll"
                     THEN {n \in SeqsUpTo(Nets, MaxQueries) :
                              \A i, j \in 1..Len(n) : i # j => n[i] # n[j]}
                     ELSE {<<>>})
    /\ hook \in Hooks
    /\ cancelled = FALSE
    /\ pc = "start"
    /\ ni = 1
    /\ list = <<>>
    /\ si = 1
    /\ all = <<>>
    /\ hostnames = <<>>
    /\ foundQueries = EmptyMap
    /\ findAllRet = NoRet
    /\ ret = NoRet
    /\ searchLog = <<>>
    /\ fetchLog = <<>>
    /\ discovered = <<>>
    /\ budget = MaxAds

(***************************************************************************)
(* Steps of findAll shared by the two variants.                            *)
(***************************************************************************)
\* Mutant of FetchStep: a failed fetch ends the loop ("break" for "continue").
FetchStep_break(devs, i, srv, o, n) ==
    IF o.err
    THEN [all |-> devs, si |-> n + 1]
    ELSE [all |-> Append(devs, [Service |-> srv, Desc |-> o.desc]), si |-> i + 1]

\* One iteration of "for _, srv := range list": the device list and the index
\* of the next service, given what readDeviceDesc returned.
FetchStep(devs, i, srv, o, n) ==
    IF o.err
    THEN [all |-> devs, si |-> i + 1]
    ELSE [all |-> Append(devs, [Service |-> srv, Desc |-> o.desc]), si |-> i + 1]

\* What the caller of a failed search gets back.
SearchFailedRet(e) ==
    IF entry = "findAll" THEN FindAllFailed(all, e)
    ELSE IF variant = "mapping" THEN M_SearchFailed(hostnames, foundQueries, e)
    ELSE E_SearchFailed(all, e)

\* ssdp.Search fails: findAll returns (nil, err) and FindHost returns at once.
SearchFail ==
    /\ pc = "search"
    /\ ni <= Len(networks)
    /\ \E o \in SearchOutcomes : o.err
    /\ searchLog' = Append(searchLog,
                       [network |-> networks[ni], err |-> TRUE, ctxDone |-> cancelled])
    /\ findAllRet' = FindAllFailed(all, SearchErr(networks[ni]))
    /\ ret' = SearchFailedRet(SearchErr(networks[ni]))
    /\ pc' = "done"
    /\ UNCHANGED <<budget, variant, entry, queries, hook, cancelled, networks, ni, list, si,
                   all, hostnames, foundQueries, fetchLog, discovered>>

\* ssdp.Search returns a list of services.
SearchOk ==
    /\ pc = "search"
    /\ ni <= Len(networks)
    /\ \E o \in SearchOutcomes :
          /\ ~o.err
          /\ Len(o.list) <= budget
          /\ list' = o.list
          /\ budget' = budget - Len(o.list)
    /\ searchLog' = Append(searchLog,
                       [network |-> networks[ni], err |-> FALSE, ctxDone |-> cancelled])
    /\ si' = 1
    /\ pc' = "fetch"
    /\ UNCHANGED <<variant, entry, queries, hook, cancelled, networks, ni, all,
                   hostnames, foundQueries, findAllRet, ret, fetchLog, discovered>>

\* One service of the list: readDeviceDesc, then append or continue.
Fetch ==
    /\ pc = "fetch"
    /\ si <= Len(list)
    /\ \E o \in readDeviceDesc(cancelled, list[si].Location) :
          LET r == FetchStep(all, si, list[si], o, Len(list))
          IN  /\ all' = r.all
              /\ si' = r.si
              /\ fetchLog' = Append(fetchLog,
                                [srv |-> list[si], err |-> o.err, desc |-> o.desc])
    /\ UNCHANGED <<budget, variant, entry, queries, hook, cancelled, pc, networks, ni, list,
                   hostnames, foundQueries, findAllRet, ret, searchLog, discovered>>

\* The caller's context is cancelled while the call runs.
Cancel ==
    /\ pc # "done"
    /\ ~cancelled
    /\ cancelled' = TRUE
    /\ UNCHANGED <<budget, variant, entry, queries, hook, pc, networks, ni, list, si, all,
                   hostnames, foundQueries, findAllRet, ret, searchLog, fetchLog,
                   discovered>>

(***************************************************************************)
(* FindHost and findAll of the mapping variant (src/find.go).              *)
(***************************************************************************)
M_Start ==
    /\ pc = "start"
    /\ variant = "mapping"
    /\ networks' = M_parseNetworks(queries)
    /\ hostnames' = <<>>
    /\ foundQueries' = EmptyMap
    /\ ni' = 1
    /\ pc' = "net"
    /\ UNCHANGED <<budget, variant, entry, queries, hook, cancelled, list, si, all,
                   findAllRet, ret, searchLog, fetchLog, discovered>>

\* The devices of one network matched against the whole batch.
M_Matched(devs) ==
    M_MatchAll(devs, queries, [hostnames |-> hostnames, foundQueries |-> foundQueries])

\* findAll with the test key set: the precomputed list, no search.
M_FindAllHook ==
    /\ pc = "net"
    /\ ni <= Len(networks)
    /\ hook.ok
    /\ findAllRet' = FindAllOk(hook.all)
    /\ discovered' = AddDistinct(discovered, hook.all)
    /\ hostnames' = M_Matched(hook.all).hostnames
    /\ foundQueries' = M_Matched(hook.all).foundQueries
    /\ ni' = ni + 1
    /\ UNCHANGED <<budget, variant, entry, queries, hook, cancelled, pc, networks, list, si,
                   all, ret, searchLog, fetchLog>>

\* findAll without the test key: "all = []UPNPDevice{}", then the search.
M_FindAllBegin ==
    /\ pc = "net"
    /\ ni <= Len(networks)
    /\ ~hook.ok
    /\ all' = <<>>
    /\ list' = <<>>
    /\ si' = 1
    /\ fetchLog' = <<>>
    /\ findAllRet' = NoRet
    /\ pc' = "search"
    /\ UNCHANGED <<budget, variant, entry, queries, hook, cancelled, networks, ni,
                   hostnames, foundQueries, ret, searchLog, discovered>>

\* findAll returns (all, nil); FindHost matches the devices and goes on to the
\* next network.
M_FindAllDone ==
    /\ pc = "fetch"
    /\ variant = "mapping"
    /\ si > Len(list)
    /\ findAllRet' = FindAllOk(all)
    /\ discovered' = AddDistinct(discovered, all)
    /\ hostnames' = M_Matched(all).hostnames
    /\ foundQueries' = M_Matched(all).foundQueries
    /\ ni' = ni + 1
    /\ pc' = "net"
    /\ UNCHANGED <<budget, variant, entry, queries, hook, cancelled, networks, list, si, all,
                   ret, searchLog, fetchLog>>

\* After the last network: the result, or the no-match error.
M_Return ==
    /\ pc = "net"
    /\ ni > Len(networks)
    /\ ret' = M_Result(hostnames, foundQueries, queries)
    /\ pc' = "done"
    /\ UNCHANGED <<budget, variant, entry, queries, hook, cancelled, networks, ni, list, si,
                   all, hostnames, foundQueries, findAllRet, searchLog, fetchLog,
                   discovered>>

(***************************************************************************)
(* FindHost and findAll of the endpoint variant (src/unnamed/part_000).    *)
(***************************************************************************)
\* What the caller gets when findAll returns (devs, nil).
E_Return(devs) ==
    IF entry = "findAll" THEN FindAllOk(devs)
    ELSE E_Result(E_MatchAll(devs, queries), queries)

E_Start ==
    /\ pc = "start"
    /\ variant = "endpoint"
    /\ networks' = IF entry = "FindHost" THEN E_parseNetworks(queries) ELSE networks
    /\ pc' = "findAll"
    /\ UNCHANGED <<budget, variant, entry, queries, hook, cancelled, ni, list, si, all,
                   hostnames, foundQueries, findAllRet, ret, searchLog, fetchLog,
                   discovered>>

\* findAll with the test key set: the precomputed list, no search.
E_FindAllHook ==
    /\ pc = "findAll"
    /\ hook.ok
    /\ findAllRet' = FindAllOk(hook.all)
    /\ discovered' = AddDistinct(<<>>, hook.all)
    /\ ret' = E_Return(hook.all)
    /\ pc' = "done"
    /\ UNCHANGED <<budget, variant, entry, queries, hook, cancelled, networks, ni, list, si,
                   all, hostnames, foundQueries, searchLog, fetchLog>>

\* findAll without the test key: "all = []UPNPDevice{}", then the networks.
E_FindAllBegin ==
    /\ pc = "findAll"
    /\ ~hook.ok
    /\ all' = <<>>
    /\ ni' = 1
    /\ pc' = "search"
    /\ UNCHANGED <<budget, variant, entry, queries, hook, cancelled, networks, list, si,
                   hostnames, foundQueries, findAllRet, ret, searchLog, fetchLog,
                   discovered>>

\* The services of one network are done: on to the next network.
E_NextNetwork ==
    /\ pc = "fetch"
    /\ variant = "endpoint"
    /\ si > Len(list)
    /\ ni' = ni + 1
    /\ pc' = "search"
    /\ UNCHANGED <<budget, variant, entry, queries, hook, cancelled, networks, list, si, all,
                   hostnames, foundQueries, findAllRet, ret, searchLog, fetchLog,
                   discovered>>

\* After the last network findAll returns (all, nil) and FindHost matches.
E_FindAllDone ==
    /\ pc = "search"
    /\ variant = "endpoint"
    /\ ni > Len(networks)
    /\ findAllRet' = FindAllOk(all)
    /\ discovered' = AddDistinct(<<>>, all)
    /\ ret' = E_Return(all)
    /\ pc' = "done"
    /\ UNCHANGED <<budget, variant, entry, queries, hook, cancelled, networks, ni, list, si,
                   all, hostnames, foundQueries, searchLog, fetchLog>>

Next ==
    \/ M_Start
    \/ M_FindAllHook
    \/ M_FindAllBegin
    \/ M_FindAllDone
    \/ M_Return
    \/ E_Start
    \/ E_FindAllHook
    \/ E_FindAllBegin
    \/ E_NextNetwork
    \/ E_FindAllDone
    \/ SearchFail
    \/ SearchOk
    \/ Fetch
    \/ Cancel

Spec == Init /\ [][Next]_vars

(***************************************************************************)
(* The matcher on its own: UPNPDevice.Matches applied to one device and    *)
(* one query.  One field of the query draws its pattern, and the device    *)
(* its value, from every string of the alphabet up to the bounds; the two  *)
(* other fields draw from a few strings.                                   *)
(***************************************************************************)
Alphabet == {"a", ".", "*"}
FieldNames == {"ModelName", "Manufacturer", "SerialNumber"}
FewPatterns == {Empty, <<"a">>}
FewValues == {<<"a">>, <<".">>}
Patterns(f, rich) == IF f = rich THEN SeqsUpTo(Alphabet, MaxPat) ELSE FewPatterns
Values(f, rich) == IF f = rich THEN SeqsUpTo(Alphabet, MaxField) ELSE FewValues

MatchQueries(v, rich) ==
    IF v = "mapping"
    THEN [ModelName : Patterns("ModelName", rich),
          Manufacturer : Patterns("Manufacturer", rich),
          SerialNumber : Patterns("SerialNumber", rich),
          Network : {Empty, eth0}]
    ELSE [ModelName : Patterns("ModelName", rich),
          Manufacturer : Patterns("Manufacturer", rich),
          SerialNumber : Patterns("SerialNumber", rich),
          Network : {Empty, eth0},
          Endpoints : {<<>>, <<EpA>>}]

MatchDevices(rich) ==
    [Service : {[Location |-> LocH1]},
     Desc : [ModelName : Values("ModelName", rich),
             Manufacturer : Values("Manufacturer", rich),
             SerialNumber : Values("SerialNumber", rich)]]

InitMatch ==
    /\ variant \in {"mapping", "endpoint"}
    /\ entry = "Matches"
    /\ \E rich \in FieldNames :
          /\ queries \in {<<q>> : q \in MatchQueries(variant, rich)}
          /\ all \in {<<d>> : d \in MatchDevices(rich)}
    /\ hook = [ok |-> FALSE, all |-> <<>>]
    /\ cancelled = FALSE
    /\ pc = "start"
    /\ networks = <<>>
    /\ ni = 1
    /\ list = <<>>
    /\ si = 1
    /\ hostnames = <<>>
    /\ foundQueries = EmptyMap
    /\ findAllRet = NoRet
    /\ ret = NoRet
    /\ searchLog = <<>>
    /\ fetchLog = <<>>
    /\ discovered = <<>>
    /\ budget = MaxAds

\* a.Matches(query)
MatchesCall ==
    /\ pc = "start"
    /\ entry = "Matches"
    /\ ret' = [result |-> Matches(all[1], queries[1])]
    /\ pc' = "done"
    /\ UNCHANGED <<budget, variant, entry, queries, hook, cancelled, networks, ni, list, si,
                   all, hostnames, foundQueries, findAllRet, searchLog, fetchLog,
                   discovered>>

NextMatch == MatchesCall

SpecMatch == InitMatch /\ [][NextMatch]_vars

(***************************************************************************)
(* Properties.                                                             *)
(***************************************************************************)
NoDup(seq) == \A i, j \in 1..Len(seq) : i # j => seq[i] # seq[j]
Range(seq) == {seq[i] : i \in 1..Len(seq)}
Done == pc = "done"
Returned == Done /\ entry = "FindHost"
NoSearchFailed == \A i \in 1..Len(searchLog) : ~searchLog[i].err
Parsable(dev) == ~urlParse(dev.Service.Location).err
HostOf(dev) == urlParse(dev.Service.Location).Hostname
MatchesAny(dev) == \E i \in 1..Len(queries) : Matches(dev, queries[i])

\* The index at which a network is first named by the batch.
FirstNamed(n) ==
    CHOOSE i \in 1..Len(queries) :
        /\ queries[i].Network = n
        /\ \A j \in 1..(i - 1) : queries[j].Network # n

\* C1: parseNetworks returns exactly the distinct non-empty networks the
\* queries name, each once, in order of first appearance, never the empty
\* string.
C1_ParseNetworks ==
    (entry = "FindHost" /\ pc # "start") =>
        /\ NoDup(networks)
        /\ Range(networks) = {queries[i].Network : i \in 1..Len(queries)} \ {Empty}
        /\ \A a, b \in 1..Len(networks) :
              a < b => FirstNamed(networks[a]) < FirstNamed(networks[b])

\* C2: in the mapping variant the hostname list, while it is built and when it
\* is returned, holds no string twice.
C2_NoDuplicateHostnames ==
    variant = "mapping" =>
        /\ NoDup(hostnames)
        /\ Returned => NoDup(ret.hostnames)

\* Two devices at one hostname were discovered over two searches, each matched
\* by both queries of the batch, and the list was returned.
C2_Witness ==
    /\ variant = "mapping"
    /\ Returned
    /\ ret.err = NilErr
    /\ Len(searchLog) = 2
    /\ Len(queries) = 2
    /\ \E i, j \in 1..Len(discovered) :
          /\ i # j
          /\ Parsable(discovered[i]) /\ Parsable(discovered[j])
          /\ HostOf(discovered[i]) = HostOf(discovered[j])
          /\ \A k \in 1..2 : Matches(discovered[i], queries[k])
          /\ \A k \in 1..2 : Matches(discovered[j], queries[k])

\* C3: in the endpoint variant the result list FindHost returns holds no entry
\* twice.
C3_NoDuplicateEntries ==
    (variant = "endpoint" /\ Returned) => NoDup(ret.hostnames)

\* C4: when every search succeeds FindHost returns a non-empty list and a nil
\* error if and only if a discovered device with a parsable location matches a
\* query of the batch, and otherwise the empty list with the no-match error
\* that lists the batch; a non-empty list never comes with an error, nor an
\* empty list with a nil error.
C4_ResultOrNoMatch ==
    Returned =>
        /\ (ret.hostnames # <<>>) <=> (ret.err = NilErr)
        /\ NoSearchFailed =>
              IF \E d \in Range(discovered) : Parsable(d) /\ MatchesAny(d)
              THEN ret.hostnames # <<>> /\ ret.err = NilErr
              ELSE ret.hostnames = <<>> /\ ret.err = NoMatchErr(queries)

\* Both outcomes of C4 next to each other: a discovered device that matches but
\* whose location does not parse, and one that matches and is returned.
C4_Witness ==
    /\ Returned
    /\ ~hook.ok
    /\ NoSearchFailed
    /\ ret.hostnames # <<>>
    /\ \E d \in Range(discovered) : ~Parsable(d) /\ MatchesAny(d)

\* C5: a failed search is the last search of the call; the call is over and
\* returns that search's error with an empty list, whatever the networks
\* searched before it yielded.
C5_SearchFailureIsFatal ==
    \A i \in 1..Len(searchLog) :
        searchLog[i].err =>
            /\ i = Len(searchLog)
            /\ Done
            /\ ret.err = SearchErr(searchLog[i].network)
            /\ entry = "FindHost" => ret.hostnames = <<>>
            /\ entry = "findAll" => ret.all = <<>> /\ ret.isNil
            /\ findAllRet.err = ret.err /\ findAllRet.isNil

\* The second search failed after the first had yielded a matching device.
C5_Witness ==
    /\ Returned
    /\ variant = "mapping"
    /\ Len(searchLog) = 2
    /\ searchLog[2].err
    /\ hostnames # <<>>

\* The devices of the descriptor fetches that succeeded, in fetch order.
Resolved(log) ==
    LET ok == SelectSeq(log, LAMBDA e : ~e.err)
    IN  [i \in 1..Len(ok) |-> [Service |-> ok[i].srv, Desc |-> ok[i].desc]]

\* C6: a failed descriptor fetch drops only its own advertisement: every
\* advertisement of the list is fetched, in order, the device list is exactly
\* the devices of the fetches that succeeded, in order and with a descriptor,
\* and findAll returns that list with no error.
C6_FetchFailureIsLocal ==
    /\ pc = "fetch" =>
          /\ si - 1 <= Len(fetchLog)
          /\ \A k \in 1..(si - 1) :
                k <= Len(list) /\ fetchLog[Len(fetchLog) - (si - 1) + k].srv = list[k]
          /\ all = Resolved(fetchLog)
    /\ (findAllRet # NoRet /\ ~hook.ok /\ NoSearchFailed) =>
          /\ findAllRet.err = NilErr
          /\ ~findAllRet.isNil
          /\ findAllRet.all = Resolved(fetchLog)
          /\ \A i \in 1..Len(findAllRet.all) : findAllRet.all[i].Desc # <<>>

\* findAll returned after a search of two advertisements of which the first
\* could not be fetched and the second could.
C6_Witness ==
    /\ findAllRet # NoRet
    /\ ~hook.ok
    /\ NoSearchFailed
    /\ Len(list) = 2
    /\ Len(fetchLog) = 2
    /\ fetchLog[1].err
    /\ ~fetchLog[2].err
    /\ findAllRet.all = <<[Service |-> list[2], Desc |-> fetchLog[2].desc]>>

\* The rule of one field: empty, or equal, or a ".*" pattern whose prefix the
\* descriptor field starts with.
FieldAccepts(pattern, value) ==
    \/ pattern = Empty
    \/ pattern = value
    \/ /\ Len(pattern) >= 2
       /\ pattern[Len(pattern) - 1] = "." /\ pattern[Len(pattern)] = "*"
       /\ Len(value) >= Len(pattern) - 2
       /\ \A i \in 1..(Len(pattern) - 2) : value[i] = pattern[i]

\* C7: Matches is true if and only if each of model name, manufacturer and
\* serial number passes the rule of one field; the Network and Endpoints of
\* the query play no part.
C7_MatchesIffFields ==
    (entry = "Matches" /\ Done) =>
        ret.result = (/\ FieldAccepts(queries[1].ModelName, all[1].Desc.ModelName)
                      /\ FieldAccepts(queries[1].Manufacturer, all[1].Desc.Manufacturer)
                      /\ FieldAccepts(queries[1].SerialNumber,
                                      all[1].Desc.SerialNumber))

\* A ".*" pattern with a non-empty prefix matched a longer descriptor field,
\* on a query that names a network.
C7_Witness ==
    /\ entry = "Matches"
    /\ Done
    /\ ret.result
    /\ queries[1].Network # Empty
    /\ queries[1].SerialNumber = <<"a", ".", "*">>
    /\ all[1].Desc.SerialNumber = <<"a", "a">>

\* What one device and one query add to the result of the endpoint variant.
Contribution(dev, query) ==
    IF ~Matches(dev, query) \/ ~Parsable(dev) THEN <<>>
    ELSE IF query.Endpoints = <<>> THEN <<HostOf(dev)>>
    ELSE [i \in 1..Len(query.Endpoints) |->
             HostOf(dev) \o <<"/">> \o query.Endpoints[i]]

\* The contributions of the pairs k..(number of devices * number of queries),
\* device by device and, for one device, query by query.
RECURSIVE Contributions(_, _)
Contributions(devs, k) ==
    IF k > Len(devs) * Len(queries) THEN <<>>
    ELSE Contribution(devs[((k - 1) \div Len(queries)) + 1],
                      queries[((k - 1) % Len(queries)) + 1])
         \o Contributions(devs, k + 1)

\* C8: in the endpoint variant every match of a query that has endpoints
\* contributes hostname/suffix for each suffix, in the query's order, and no
\* bare hostname; a match of a query without endpoints contributes the bare
\* hostname and nothing else.
C8_EndpointExpansion ==
    (variant = "endpoint" /\ Returned /\ NoSearchFailed) =>
        /\ ret.hostnames = Contributions(findAllRet.all, 1)
        /\ ret.hostnames # <<>> => ret.err = NilErr

\* A device at h1 matched a query with endpoints a, b: h1/a and h1/b are
\* returned, the bare h1 is not.
C8_Witness ==
    /\ variant = "endpoint"
    /\ Returned
    /\ Len(queries) = 1
    /\ queries[1].Endpoints = <<EpA, EpB>>
    /\ ret.hostnames = <<HostH1 \o <<"/">> \o EpA, HostH1 \o <<"/">> \o EpB>>

\* The first query of the batch a device matches.
FirstQueryOf(dev) ==
    queries[CHOOSE i \in 1..Len(queries) :
                /\ Matches(dev, queries[i])
                /\ \A j \in 1..(i - 1) : ~Matches(dev, queries[j])]

\* The devices discovered at a hostname that match some query.
MatchingAt(h) ==
    {i \in 1..Len(discovered) :
        Parsable(discovered[i]) /\ HostOf(discovered[i]) = h
        /\ MatchesAny(discovered[i])}

\* The first of them in order of discovery.
FirstDeviceAt(h) ==
    discovered[CHOOSE i \in MatchingAt(h) : \A j \in MatchingAt(h) : i <= j]

\* The first query of the batch matched by any device discovered at a hostname.
FirstQueryAt(h) ==
    queries[CHOOSE i \in 1..Len(queries) :
                /\ \E k \in MatchingAt(h) : Matches(discovered[k], queries[i])
                /\ \A j \in 1..(i - 1) :
                      \A k \in MatchingAt(h) : ~Matches(discovered[k], queries[j])]

\* C9 as stated: on success the keys of the map are the returned hostnames and
\* each hostname maps to the first query, in batch order, that some device
\* discovered at that hostname matches.
C9_FirstQueryOfBatch ==
    (variant = "mapping" /\ ~hook.ok /\ Returned /\ ret.err = NilErr) =>
        /\ DOMAIN ret.foundQueries = Range(ret.hostnames)
        /\ \A h \in DOMAIN ret.foundQueries : ret.foundQueries[h] = FirstQueryAt(h)

\* C9 amended: the keys of the map are the hostnames, while the map is built
\* and when it is returned, and each hostname maps to the first query, in
\* batch order, matched by the first discovered device at that hostname that
\* matches any query; the entry is the same in every later state.
C9_FirstMatchWins ==
    variant = "mapping" =>
        /\ DOMAIN foundQueries = Range(hostnames)
        /\ \A h \in DOMAIN foundQueries :
              MatchingAt(h) # {} /\ foundQueries[h] = FirstQueryOf(FirstDeviceAt(h))
        /\ (Returned /\ ret.err = NilErr) =>
              /\ ~ret.mapNil
              /\ ret.hostnames = hostnames
              /\ ret.foundQueries = foundQueries

\* Two devices at one hostname: the first discovered matches only the second
\* query, the second discovered matches the first query; the hostname maps to
\* the second query.
C9_Witness ==
    /\ variant = "mapping"
    /\ ~hook.ok
    /\ Returned
    /\ ret.err = NilErr
    /\ Len(queries) = 2
    /\ \E h \in DOMAIN ret.foundQueries :
          /\ ret.foundQueries[h] = queries[2]
          /\ queries[2] # queries[1]
          /\ FirstQueryAt(h) = queries[1]

\* C10: once the context is cancelled no search is started, and what was
\* resolved before is not returned as a success.
C10_CancelAborts ==
    (Done /\ entry = "FindHost" /\ ~hook.ok /\ cancelled) =>
        /\ \A i \in 1..Len(searchLog) : ~searchLog[i].ctxDone
        /\ ret.err # NilErr

====
